---- MODULE Spec2Model ----
(***************************************************************************)
(* Model of supercell's content negotiation (supercell/api/provider.py)    *)
(* and of the service start-up sequence (supercell/api/service.py).        *)
(*                                                                         *)
(* Spec        : the provider registry (ProviderMeta.KNOWN_CONTENT_TYPES), *)
(*               class creation through ProviderMeta.__new__ and           *)
(*               ProviderMeta.map_provider.                                *)
(* SpecService : Service.main / Service.get_app and the lazily evaluated   *)
(*               properties they use.                                      *)
(***************************************************************************)
EXTENDS Integers, Sequences, FiniteSets, TLC

VARIABLES
    KNOWN_CONTENT_TYPES, \* ProviderMeta.KNOWN_CONTENT_TYPES (defaultdict(list))
    classes,             \* CONTENT_TYPE attribute of every provider class, in creation order
    accept_header,       \* raw Accept header of the request being negotiated
    handler,             \* handler._PROD_CONTENT_TYPES of that request
    result,              \* outcome of the last map_provider call since the last class creation
    calls,               \* map_provider calls made for the request since the last class creation
    spc,                 \* position of Service.main
    trace,               \* calls Service.main has made so far, in order
    attrs,               \* lazily created attributes of the Service object
    env,                 \* the Environment: handlers added, finalized
    files,               \* per config path: does config.cfg / <config_name> exist
    socketfd,            \* the socketfd option (TRUE when given)
    root_has_handler     \* the root logger already holds a SupercellLoggingHandler

pvars == <<KNOWN_CONTENT_TYPES, classes, accept_header, handler, result, calls>>

svars == <<spc, trace, attrs, env, files, socketfd, root_has_handler>>

vars == <<KNOWN_CONTENT_TYPES, classes, accept_header, handler, result, calls,
          spc, trace, attrs, env, files, socketfd, root_has_handler>>

(***************************************************************************)
(* Bounds                                                                  *)
(***************************************************************************)
MaxPrefs == 2

MaxClasses == 2

MaxCalls == 2

MaxPaths == 2

MaxHandlers == 1

(***************************************************************************)
(* Values                                                                  *)
(***************************************************************************)
None == "None"

NoProviderFound == "NoProviderFound"

JSON == "application/json"

XML == "application/xml"

ContentType(content_type, vendor, version) ==
    [content_type |-> content_type, vendor |-> vendor, version |-> version]

NoCT == ContentType(None, None, None)   \* CONTENT_TYPE = None

\* the content types providers declare, handlers produce and clients ask for
DeclaredTypes ==
    {ContentType(JSON, None, None), ContentType(JSON, "acme", "2"),
     ContentType(XML, None, None)}

(***************************************************************************)
(* Raw Accept headers.  A header is a sequence of lexemes: media type      *)
(* names, parameter names and values, and the separators "," ";" "=" " ".  *)
(***************************************************************************)
QStrings == {None, "0"}

Entries == [ct : DeclaredTypes, q : QStrings]

Param(k, v) == IF v = None THEN <<>> ELSE <<";", k, "=", v>>

RenderEntry(e) ==
    <<e.ct.content_type>> \o Param("vendor", e.ct.vendor)
        \o Param("version", e.ct.version) \o Param("q", e.q)

RECURSIVE Render(_)
Render(es) ==
    IF Len(es) = 0 THEN <<>>
    ELSE IF Len(es) = 1 THEN RenderEntry(es[1])
    ELSE RenderEntry(es[1]) \o <<",", " ">> \o Render(Tail(es))

Headers ==
    {Render(es) : es \in UNION {[1..n -> Entries] : n \in 0..MaxPrefs}}

EmptyDict == [k \in {} |-> None]

Get(d, k) == IF k \in DOMAIN d THEN d[k] ELSE None

(***************************************************************************)
(* parse_accept_header                                                     *)
(***************************************************************************)
RECURSIVE Split(_, _)
Split(s, sep) ==
    IF \A i \in 1..Len(s) : s[i] # sep THEN <<s>>
    ELSE LET k == CHOOSE i \in 1..Len(s) :
                      s[i] = sep /\ \A j \in 1..(i - 1) : s[j] # sep
         IN  <<SubSeq(s, 1, k - 1)>> \o Split(SubSeq(s, k + 1, Len(s)), sep)

RECURSIVE Strip(_)
Strip(s) ==
    IF Len(s) > 0 /\ s[1] = " " THEN Strip(Tail(s))
    ELSE IF Len(s) > 0 /\ s[Len(s)] = " " THEN Strip(SubSeq(s, 1, Len(s) - 1))
    ELSE s

QValue(s) ==
    IF s = <<"0">> THEN 0
    ELSE IF s = <<"0.5">> THEN 5
    ELSE 10

Token(s) == IF Len(s) = 1 THEN s[1] ELSE None

ParseParam(part) ==
    LET kv == Split(Strip(part), "=")
    IN  [key |-> Token(Strip(kv[1])),
         value |-> IF Len(kv) > 1 THEN Strip(kv[2]) ELSE <<>>]

RECURSIVE ParseParams(_, _)
ParseParams(parts, acc) ==
    IF Len(parts) = 0 THEN acc
    ELSE LET p == ParseParam(parts[1])
         IN  ParseParams(Tail(parts),
                 IF p.key = "q"
                 THEN [acc EXCEPT !.q = QValue(p.value)]
                 ELSE [acc EXCEPT !.params =
                          [k \in DOMAIN acc.params \cup {p.key} |->
                              IF k = p.key THEN Token(p.value) ELSE acc.params[k]]])

ParseEntry(media_range) ==
    LET parts == Split(media_range, ";")
    IN  ParseParams(Tail(parts),
            [ctype |-> Token(Strip(parts[1])), params |-> EmptyDict, q |-> 10])

parse_accept_header(header) ==
    IF Len(header) = 0 THEN <<>>
    ELSE LET ranges == Split(header, ",")
         IN  [i \in 1..Len(ranges) |-> ParseEntry(ranges[i])]

(***************************************************************************)
(* The provider registry and ProviderMeta.__new__                          *)
(***************************************************************************)
\* a class body either assigns CONTENT_TYPE once or not at all
Dcts == {<<>>} \cup {<<c>> : c \in DeclaredTypes \cup {NoCT}}

\* defaultdict(list).__getitem__: a missing key is inserted with an empty list
Touch(known, key) ==
    IF key \in DOMAIN known THEN known
    ELSE [k \in DOMAIN known \cup {key} |-> IF k = key THEN <<>> ELSE known[k]]

\* provider_class.CONTENT_TYPE: the class body's value, else the parent's
AttrContentType(cls, parent, dct) ==
    IF Len(dct) > 0 THEN dct[1]
    ELSE IF parent = 0 THEN NoCT
    ELSE cls[parent]

\* variant: a ContentType that is already registered is not registered again
Register_dedup(known, ct, provider_class) ==
    LET k == Touch(known, ct.content_type)
    IN  IF \E j \in 1..Len(k[ct.content_type]) : k[ct.content_type][j][1] = ct
        THEN k
        ELSE [k EXCEPT ![ct.content_type] = Append(@, <<ct, provider_class>>)]

Register(known, ct, provider_class) ==
    LET k == Touch(known, ct.content_type)
    IN  [k EXCEPT ![ct.content_type] = Append(@, <<ct, provider_class>>)]

ProviderMeta_new(known, cls, parent, dct) ==
    LET provider_class == Len(cls) + 1
        ct == AttrContentType(cls, parent, dct)
    IN  [classes |-> Append(cls, ct),
         known |-> IF ct # NoCT THEN Register(known, ct, provider_class)
                   ELSE known]

(***************************************************************************)
(* ProviderMeta.map_provider                                               *)
(***************************************************************************)
Raise == [kind |-> NoProviderFound, provider |-> 0]

Return(provider) == [kind |-> "return", provider |-> provider]

Continue == [kind |-> "continue", provider |-> 0]

Candidate(pref) ==
    ContentType(pref.ctype, Get(pref.params, "vendor"),
                Get(pref.params, "version"))

\* variant: returns the first registered provider of the media type
LoopBody_first_registered(pref, prod, known) ==
    IF pref.ctype \notin DOMAIN prod
    THEN [out |-> Raise, known |-> known]
    ELSE LET c == Candidate(pref)
         IN  IF c \notin prod[pref.ctype]
             THEN [out |-> Raise, known |-> known]
             ELSE LET known2 == Touch(known, pref.ctype)
                      known_types ==
                          SelectSeq(known2[pref.ctype], LAMBDA t : t[1] = c)
                  IN  IF Len(known_types) = 1
                      THEN [out |-> Return(known2[pref.ctype][1][2]),
                            known |-> known2]
                      ELSE [out |-> Continue, known |-> known2]

\* variant: an unsupported media type is skipped
LoopBody_skip_unsupported(pref, prod, known) ==
    IF pref.ctype \notin DOMAIN prod
    THEN [out |-> Continue, known |-> known]
    ELSE LET c == Candidate(pref)
         IN  IF c \notin prod[pref.ctype]
             THEN [out |-> Raise, known |-> known]
             ELSE LET known2 == Touch(known, pref.ctype)
                      known_types ==
                          SelectSeq(known2[pref.ctype], LAMBDA t : t[1] = c)
                  IN  IF Len(known_types) = 1
                      THEN [out |-> Return(known_types[1][2]), known |-> known2]
                      ELSE [out |-> Continue, known |-> known2]

\* variant: an absent vendor or version of an allowed type matches any value
LoopBody_wildcard(pref, prod, known) ==
    IF pref.ctype \notin DOMAIN prod
    THEN [out |-> Raise, known |-> known]
    ELSE LET c == Candidate(pref)
         IN  IF ~\E a \in prod[pref.ctype] :
                    /\ a.vendor \in {None, c.vendor}
                    /\ a.version \in {None, c.version}
             THEN [out |-> Raise, known |-> known]
             ELSE LET known2 == Touch(known, pref.ctype)
                      known_types ==
                          SelectSeq(known2[pref.ctype], LAMBDA t : t[1] = c)
                  IN  IF Len(known_types) = 1
                      THEN [out |-> Return(known_types[1][2]), known |-> known2]
                      ELSE [out |-> Continue, known |-> known2]

\* variant: the first of several equal registry entries is selected
LoopBody_any_match(pref, prod, known) ==
    IF pref.ctype \notin DOMAIN prod
    THEN [out |-> Raise, known |-> known]
    ELSE LET c == Candidate(pref)
         IN  IF c \notin prod[pref.ctype]
             THEN [out |-> Raise, known |-> known]
             ELSE LET known2 == Touch(known, pref.ctype)
                      known_types ==
                          SelectSeq(known2[pref.ctype], LAMBDA t : t[1] = c)
                  IN  IF Len(known_types) >= 1
                      THEN [out |-> Return(known_types[1][2]), known |-> known2]
                      ELSE [out |-> Continue, known |-> known2]

\* variant: the candidate is not checked against the handler's allowed set
LoopBody_no_member_check(pref, prod, known) ==
    IF pref.ctype \notin DOMAIN prod
    THEN [out |-> Raise, known |-> known]
    ELSE LET c == Candidate(pref)
             known2 == Touch(known, pref.ctype)
             known_types == SelectSeq(known2[pref.ctype], LAMBDA t : t[1] = c)
         IN  IF Len(known_types) = 1
             THEN [out |-> Return(known_types[1][2]), known |-> known2]
             ELSE [out |-> Continue, known |-> known2]

\* variant: the selected entry is taken out of the registry
LoopBody_pop(pref, prod, known) ==
    IF pref.ctype \notin DOMAIN prod
    THEN [out |-> Raise, known |-> known]
    ELSE LET c == Candidate(pref)
         IN  IF c \notin prod[pref.ctype]
             THEN [out |-> Raise, known |-> known]
             ELSE LET known2 == Touch(known, pref.ctype)
                      known_types ==
                          SelectSeq(known2[pref.ctype], LAMBDA t : t[1] = c)
                  IN  IF Len(known_types) = 1
                      THEN [out |-> Return(known_types[1][2]),
                            known |-> [known2 EXCEPT ![pref.ctype] =
                                          SelectSeq(@, LAMBDA t : t[1] # c)]]
                      ELSE [out |-> Continue, known |-> known2]

\* one iteration of the for loop: its outcome and the registry it leaves
LoopBody(pref, prod, known) ==
    IF pref.ctype \notin DOMAIN prod
    THEN [out |-> Raise, known |-> known]
    ELSE LET c == Candidate(pref)
         IN  IF c \notin prod[pref.ctype]
             THEN [out |-> Raise, known |-> known]
             ELSE LET known2 == Touch(known, pref.ctype)
                      known_types ==
                          SelectSeq(known2[pref.ctype], LAMBDA t : t[1] = c)
                  IN  IF Len(known_types) = 1
                      THEN [out |-> Return(known_types[1][2]), known |-> known2]
                      ELSE [out |-> Continue, known |-> known2]

RECURSIVE Loop(_, _, _, _)
Loop(accept, prod, known, i) ==
    IF i > Len(accept) THEN [out |-> Raise, known |-> known]
    ELSE LET r == LoopBody(accept[i], prod, known)
         IN  IF r.out.kind = "continue"
             THEN Loop(accept, prod, r.known, i + 1)
             ELSE r

\* the preferences with quality q, in header order
OfQuality(accept, q) == SelectSeq(accept, LAMBDA p : p.q = q)

\* variant: the preferences are tried in descending order of quality
map_provider_by_quality(header, prod, known) ==
    LET accept == parse_accept_header(header)
        sorted == OfQuality(accept, 10) \o OfQuality(accept, 5)
                      \o OfQuality(accept, 0)
    IN  IF Len(header) = 0 THEN [out |-> Raise, known |-> known]
        ELSE Loop(sorted, prod, known, 1)

map_provider(header, prod, known) ==
    LET accept == parse_accept_header(header)
    IN  IF Len(header) = 0 THEN [out |-> Raise, known |-> known]
        ELSE Loop(accept, prod, known, 1)

(***************************************************************************)
(* Requests                                                                *)
(***************************************************************************)
Handlers ==
    { [m \in {JSON} |-> {ContentType(JSON, None, None)}],
      [m \in {JSON, XML} |->
          IF m = JSON
          THEN {ContentType(JSON, None, None), ContentType(JSON, "acme", "2")}
          ELSE {ContentType(XML, None, None)}],
      [m \in {JSON} |-> {ContentType(JSON, "acme", "2")}] }

Idle == [kind |-> "idle", provider |-> 0]

Pending == [kind |-> "pending", provider |-> 0]

ServiceIdle ==
    /\ spc = "idle"
    /\ trace = <<>>
    /\ attrs = {}
    /\ env = [handlers |-> 0, finalized |-> FALSE]
    /\ files = <<>>
    /\ socketfd = FALSE
    /\ root_has_handler = FALSE

Init ==
    /\ KNOWN_CONTENT_TYPES = [k \in {} |-> <<>>]
    /\ classes = <<>>
    /\ accept_header = <<>>
    /\ handler = [k \in {} |-> {}]
    /\ result = Idle
    /\ calls = 0
    /\ ServiceIdle

\* class ProviderBase(with_metaclass(ProviderMeta, object)): CONTENT_TYPE = None
ImportProviderBase ==
    /\ Len(classes) = 0
    /\ LET r == ProviderMeta_new(KNOWN_CONTENT_TYPES, classes, 0, <<NoCT>>)
       IN  /\ classes' = r.classes
           /\ KNOWN_CONTENT_TYPES' = r.known
    /\ UNCHANGED <<accept_header, handler, result, calls>>
    /\ UNCHANGED svars

\* class JsonProvider(ProviderBase): CONTENT_TYPE = ContentType('application/json', None, None)
ImportJsonProvider ==
    /\ Len(classes) = 1
    /\ LET r == ProviderMeta_new(KNOWN_CONTENT_TYPES, classes, 1,
                                 <<ContentType(JSON, None, None)>>)
       IN  /\ classes' = r.classes
           /\ KNOWN_CONTENT_TYPES' = r.known
    /\ UNCHANGED <<accept_header, handler, result, calls>>
    /\ UNCHANGED svars

\* any later class statement deriving from a provider class
DefineClass ==
    /\ Len(classes) >= 2
    /\ Len(classes) < 2 + MaxClasses
    /\ \E parent \in 1..Len(classes), dct \in Dcts :
          LET r == ProviderMeta_new(KNOWN_CONTENT_TYPES, classes, parent, dct)
          IN  /\ classes' = r.classes
              /\ KNOWN_CONTENT_TYPES' = r.known
    /\ calls' = 0
    /\ result' = IF result = Idle THEN Idle ELSE Pending
    /\ UNCHANGED <<accept_header, handler>>
    /\ UNCHANGED svars

\* a request arrives: its Accept header and the handler that serves it
Request ==
    /\ Len(classes) >= 2
    /\ result = Idle
    /\ \E h \in Headers, prod \in Handlers :
          /\ accept_header' = h
          /\ handler' = prod
    /\ result' = Pending
    /\ calls' = 0
    /\ UNCHANGED <<KNOWN_CONTENT_TYPES, classes>>
    /\ UNCHANGED svars

MapProvider ==
    /\ result # Idle
    /\ calls < MaxCalls
    /\ LET r == map_provider(accept_header, handler, KNOWN_CONTENT_TYPES)
       IN  /\ result' = r.out
           /\ KNOWN_CONTENT_TYPES' = r.known
    /\ calls' = calls + 1
    /\ UNCHANGED <<accept_header, handler, classes>>
    /\ UNCHANGED svars

Next ==
    \/ ImportProviderBase
    \/ ImportJsonProvider
    \/ DefineClass
    \/ Request
    \/ MapProvider

Spec == Init /\ [][Next]_vars

TypeOK ==
    /\ result.kind \in {"idle", "pending", NoProviderFound, "return"}
    /\ calls \in 0..MaxCalls

(***************************************************************************)
(* Vocabulary of the properties                                            *)
(***************************************************************************)
\* the preferences of the current request, in iteration order
Prefs == parse_accept_header(accept_header)

\* the registry list of a media type; empty when nothing is registered
Lookup(known, m) == IF m \in DOMAIN known THEN known[m] ELSE <<>>

CandidateOf(p) ==
    [content_type |-> p.ctype,
     vendor |-> IF "vendor" \in DOMAIN p.params THEN p.params["vendor"] ELSE None,
     version |-> IF "version" \in DOMAIN p.params THEN p.params["version"] ELSE None]

SameFields(a, b) ==
    /\ a.content_type = b.content_type
    /\ a.vendor = b.vendor
    /\ a.version = b.version

KeyAllowed(p) == p.ctype \in DOMAIN handler

Allowed(p) ==
    /\ KeyAllowed(p)
    /\ \E a \in handler[p.ctype] : SameFields(a, CandidateOf(p))

EqualEntries(known, p) ==
    {j \in 1..Len(Lookup(known, p.ctype)) :
        SameFields(Lookup(known, p.ctype)[j][1], CandidateOf(p))}

Unique(known, p) == Cardinality(EqualEntries(known, p)) = 1

ProviderOf(known, p) ==
    Lookup(known, p.ctype)[CHOOSE j \in EqualEntries(known, p) : TRUE][2]

\* the loop gets to preference i: every earlier one passed both allowed
\* checks and had no unique registry entry
Reached(prefs, known, i) ==
    \A j \in 1..(i - 1) : Allowed(prefs[j]) /\ ~Unique(known, prefs[j])

\* a step that is one map_provider call
CallStep == calls' = calls + 1

\* a step that creates one provider class
ClassStep == Len(classes') = Len(classes) + 1

Called == calls >= 1 /\ result.kind \in {NoProviderFound, "return"}

\* C1: when the first preference passes both allowed checks and has exactly
\* one equal registry entry, map_provider returns that entry's provider.
C1_FirstPreferenceSelected ==
    [][LET prefs == Prefs
       IN  (/\ CallStep
            /\ Len(prefs) >= 1
            /\ Allowed(prefs[1])
            /\ Unique(KNOWN_CONTENT_TYPES, prefs[1]))
           => result' = Return(ProviderOf(KNOWN_CONTENT_TYPES, prefs[1]))]_vars

C1_Witness ==
    /\ Called
    /\ Len(Prefs) >= 1
    /\ Allowed(Prefs[1])
    /\ CandidateOf(Prefs[1]).version = "2"
    /\ Unique(KNOWN_CONTENT_TYPES, Prefs[1])
    /\ Len(Lookup(KNOWN_CONTENT_TYPES, JSON)) >= 2
    /\ result = Return(ProviderOf(KNOWN_CONTENT_TYPES, Prefs[1]))

\* C2: a preference whose media type is not a key of allowed, with no
\* uniquely registered preference before it, makes map_provider raise
\* NoProviderFound whatever follows it.
C2_NoSkipOnUnsupportedMediaType ==
    [][LET prefs == Prefs
       IN  (/\ CallStep
            /\ \E i \in 1..Len(prefs) :
                  /\ ~KeyAllowed(prefs[i])
                  /\ \A j \in 1..(i - 1) : ~Unique(KNOWN_CONTENT_TYPES, prefs[j]))
           => result' = Raise]_vars

C2_Witness ==
    /\ Called
    /\ Len(Prefs) = 2
    /\ ~KeyAllowed(Prefs[1])
    /\ Allowed(Prefs[2])
    /\ Unique(KNOWN_CONTENT_TYPES, Prefs[2])
    /\ result = Raise

\* C3: a reached preference whose media type is a key of allowed but whose
\* candidate equals no allowed ContentType in all three fields makes
\* map_provider raise NoProviderFound, whatever is registered or follows.
C3_NoSkipOnDisallowedContentType ==
    [][LET prefs == Prefs
       IN  (/\ CallStep
            /\ \E i \in 1..Len(prefs) :
                  /\ Reached(prefs, KNOWN_CONTENT_TYPES, i)
                  /\ KeyAllowed(prefs[i])
                  /\ \A a \in handler[prefs[i].ctype] :
                        ~SameFields(a, CandidateOf(prefs[i])))
           => result' = Raise]_vars

C3_Witness ==
    /\ Called
    /\ Len(Prefs) = 2
    /\ KeyAllowed(Prefs[1])
    /\ CandidateOf(Prefs[1]).version = "2"
    /\ handler[Prefs[1].ctype] = {ContentType(JSON, None, None)}
    /\ Unique(KNOWN_CONTENT_TYPES, Prefs[1])
    /\ Allowed(Prefs[2])
    /\ Unique(KNOWN_CONTENT_TYPES, Prefs[2])
    /\ result = Raise

\* C4: map_provider raises NoProviderFound whenever no reached preference
\* has exactly one equal registry entry (the empty header included); an
\* allowed preference with zero or several equal entries is passed over and
\* the next preference decides.
C4_NoUniqueMatchFails ==
    [][LET prefs == Prefs
       IN  CallStep =>
            /\ (\A i \in 1..Len(prefs) :
                   Reached(prefs, KNOWN_CONTENT_TYPES, i)
                      => ~Unique(KNOWN_CONTENT_TYPES, prefs[i]))
               => result' = Raise
            /\ \A i \in 1..(Len(prefs) - 1) :
                  (/\ Reached(prefs, KNOWN_CONTENT_TYPES, i)
                   /\ Allowed(prefs[i])
                   /\ ~Unique(KNOWN_CONTENT_TYPES, prefs[i])
                   /\ Allowed(prefs[i + 1])
                   /\ Unique(KNOWN_CONTENT_TYPES, prefs[i + 1]))
                  => result' = Return(ProviderOf(KNOWN_CONTENT_TYPES, prefs[i + 1]))]_vars

C4_Witness ==
    /\ Called
    /\ Len(Prefs) = 2
    /\ Allowed(Prefs[1])
    /\ Cardinality(EqualEntries(KNOWN_CONTENT_TYPES, Prefs[1])) = 2
    /\ Allowed(Prefs[2])
    /\ Unique(KNOWN_CONTENT_TYPES, Prefs[2])
    /\ result = Return(ProviderOf(KNOWN_CONTENT_TYPES, Prefs[2]))

\* C5: a map_provider call leaves the provider registry, its keys and the
\* list under each key, as it was before the call.
C5_RegistryUnchangedByCall ==
    [][CallStep => KNOWN_CONTENT_TYPES' = KNOWN_CONTENT_TYPES]_vars

\* C6: of two preferences that both pass the allowed checks and each have
\* exactly one registered provider, the one written first in the header is
\* selected, whatever the quality values are.
C6_HeaderOrderNotQualityOrder ==
    [][LET prefs == Prefs
       IN  (/\ CallStep
            /\ Len(prefs) = 2
            /\ \A i \in 1..2 :
                  Allowed(prefs[i]) /\ Unique(KNOWN_CONTENT_TYPES, prefs[i]))
           => result' = Return(ProviderOf(KNOWN_CONTENT_TYPES, prefs[1]))]_vars

C6_Witness ==
    /\ Called
    /\ Len(Prefs) = 2
    /\ \A i \in 1..2 :
          Allowed(Prefs[i]) /\ Unique(KNOWN_CONTENT_TYPES, Prefs[i])
    /\ Prefs[1].q = 0
    /\ Prefs[2].q = 10
    /\ ProviderOf(KNOWN_CONTENT_TYPES, Prefs[1])
          # ProviderOf(KNOWN_CONTENT_TYPES, Prefs[2])
    /\ result = Return(ProviderOf(KNOWN_CONTENT_TYPES, Prefs[1]))

\* C7: a returned provider is the provider of the one and only registry
\* entry equal to the candidate of some preference that passes both allowed
\* checks; a provider whose ContentType the handler does not allow is never
\* returned.
C7_ReturnedProviderIsAllowedUniqueMatch ==
    [][LET prefs == Prefs
       IN  (CallStep /\ result'.kind = "return") =>
            /\ \E i \in 1..Len(prefs) :
                  /\ Allowed(prefs[i])
                  /\ Unique(KNOWN_CONTENT_TYPES, prefs[i])
                  /\ result'.provider = ProviderOf(KNOWN_CONTENT_TYPES, prefs[i])
            /\ LET ct == classes[result'.provider]
               IN  /\ ct.content_type \in DOMAIN handler
                   /\ ct \in handler[ct.content_type]]_vars

C7_Witness ==
    /\ Called
    /\ result.kind = "return"
    /\ \E i \in 1..Len(Prefs), j \in 1..Len(classes) :
          /\ classes[j] # NoCT
          /\ SameFields(classes[j], CandidateOf(Prefs[i]))
          /\ ~Allowed(Prefs[i])

\* the registrations of media type m, in class creation order
RegistrationsOf(m) ==
    SelectSeq([i \in 1..Len(classes) |-> <<classes[i], i>>],
              LAMBDA t : t[1] # NoCT /\ t[1].content_type = m)

\* C8: creating a class whose CONTENT_TYPE is set appends exactly one entry
\* at the end of its media type's list and changes nothing else, creating
\* one whose CONTENT_TYPE is None changes nothing, and every list holds its
\* registrations in creation order, equal ContentTypes included.
C8_RegistrationAppendOnly ==
    /\ [][ClassStep =>
            LET ct == classes'[Len(classes')]
            IN  IF ct = NoCT
                THEN KNOWN_CONTENT_TYPES' = KNOWN_CONTENT_TYPES
                ELSE /\ DOMAIN KNOWN_CONTENT_TYPES' =
                           DOMAIN KNOWN_CONTENT_TYPES \cup {ct.content_type}
                     /\ KNOWN_CONTENT_TYPES'[ct.content_type] =
                           Append(Lookup(KNOWN_CONTENT_TYPES, ct.content_type),
                                  <<ct, Len(classes')>>)
                     /\ \A m \in DOMAIN KNOWN_CONTENT_TYPES \ {ct.content_type} :
                           KNOWN_CONTENT_TYPES'[m] = KNOWN_CONTENT_TYPES[m]]_vars
    /\ [](\A m \in {JSON, XML} :
             Lookup(KNOWN_CONTENT_TYPES, m) = RegistrationsOf(m))

C8_Witness ==
    /\ Len(classes) = 4
    /\ classes[1] = NoCT
    /\ Len(Lookup(KNOWN_CONTENT_TYPES, JSON)) = 3
    /\ KNOWN_CONTENT_TYPES[JSON][1][1] = KNOWN_CONTENT_TYPES[JSON][3][1]
    /\ KNOWN_CONTENT_TYPES[JSON][2][1] # KNOWN_CONTENT_TYPES[JSON][3][1]

\* C9: a map_provider call repeated with the same header and handler, with
\* no class created in between, has the outcome of the call before it.
C9_RepeatedNegotiationIdempotent ==
    [][(CallStep /\ calls >= 1) => result' = result]_vars

C9_Witness ==
    /\ calls >= 2
    /\ result.kind = "return"
    /\ XML \in DOMAIN KNOWN_CONTENT_TYPES
    /\ KNOWN_CONTENT_TYPES[XML] = <<>>

(***************************************************************************)
(* Service (supercell/api/service.py)                                      *)
(***************************************************************************)
ConfigFiles ==
    UNION {[1..n -> [cfg : BOOLEAN, named : BOOLEAN]] : n \in 0..MaxPaths}

\* parse_config_files: for each path config.cfg, then <config_name>, if present
RECURSIVE parse_config_files(_, _)
parse_config_files(fs, i) ==
    IF i > Len(fs) THEN <<>>
    ELSE (IF fs[i].cfg THEN <<"parse_config_file">> ELSE <<>>)
         \o (IF fs[i].named THEN <<"parse_config_file">> ELSE <<>>)
         \o parse_config_files(fs, i + 1)

\* variant: the parsed configuration is not cached
config_uncached(st, fs) ==
    [attrs |-> st.attrs \cup {"_config"},
     trace |-> st.trace \o <<"parse_config_files">>
                   \o parse_config_files(fs, 1)
                   \o <<"parse_command_line">>]

\* the config property: parse on first access, then the cached _config
config(st, fs) ==
    IF "_config" \notin st.attrs
    THEN [attrs |-> st.attrs \cup {"_config"},
          trace |-> st.trace \o <<"parse_config_files">>
                        \o parse_config_files(fs, 1)
                        \o <<"parse_command_line">>]
    ELSE st

\* the environment property
environment(st) ==
    IF "_environment" \notin st.attrs
    THEN [st EXCEPT !.attrs = @ \cup {"_environment"},
                    !.trace = Append(@, "Environment")]
    ELSE st

\* initialize_logging
initialize_logging(st, fs, has_handler) ==
    IF ~has_handler
    THEN LET c1 == config(st, fs)
             s1 == [c1 EXCEPT !.trace = Append(@, "setLevel")]
             c2 == config(s1, fs)
         IN  [c2 EXCEPT !.trace = Append(@, "addHandler")]
    ELSE st

\* the slog property
slog(st, fs, has_handler) ==
    IF "_slog" \notin st.attrs
    THEN LET s1 == initialize_logging(st, fs, has_handler)
         IN  [s1 EXCEPT !.attrs = @ \cup {"_slog"}]
    ELSE st

Self == [attrs |-> attrs, trace |-> trace]

Update(st, event, next) ==
    /\ attrs' = st.attrs
    /\ trace' = IF event = None THEN st.trace ELSE Append(st.trace, event)
    /\ spc' = next

InitService ==
    /\ KNOWN_CONTENT_TYPES = [k \in {} |-> <<>>]
    /\ classes = <<>>
    /\ accept_header = <<>>
    /\ handler = [k \in {} |-> {}]
    /\ result = Idle
    /\ calls = 0
    /\ spc = "main"
    /\ trace = <<>>
    /\ attrs = {}
    /\ env = [handlers |-> 0, finalized |-> FALSE]
    /\ files \in ConfigFiles
    /\ socketfd \in BOOLEAN
    /\ root_has_handler \in BOOLEAN

\* get_app: self.environment
get_app_environment ==
    /\ spc = "main"
    /\ Update(environment(Self), None, "bootstrap")
    /\ UNCHANGED <<env, files, socketfd, root_has_handler>>
    /\ UNCHANGED pvars

\* get_app: self.bootstrap()
get_app_bootstrap ==
    /\ spc = "bootstrap"
    /\ Update(Self, "bootstrap", "config")
    /\ UNCHANGED <<env, files, socketfd, root_has_handler>>
    /\ UNCHANGED pvars

\* get_app: self.config
get_app_config ==
    /\ spc = "config"
    /\ Update(config(Self, files), None, "run")
    /\ UNCHANGED <<env, files, socketfd, root_has_handler>>
    /\ UNCHANGED pvars

\* get_app: self.run(), the hook that adds handlers to the environment
get_app_run ==
    /\ spc = "run"
    /\ \E n \in 0..MaxHandlers : env' = [env EXCEPT !.handlers = @ + n]
    /\ Update(Self, "run", "finalize")
    /\ UNCHANGED <<files, socketfd, root_has_handler>>
    /\ UNCHANGED pvars

\* get_app: self.environment._finalize()
get_app_finalize ==
    /\ spc = "finalize"
    /\ env' = [env EXCEPT !.finalized = TRUE]
    /\ Update(environment(Self), "_finalize", "get_application")
    /\ UNCHANGED <<files, socketfd, root_has_handler>>
    /\ UNCHANGED pvars

\* get_app: return self.environment.get_application(self.config)
get_app_return ==
    /\ spc = "get_application"
    /\ Update(config(environment(Self), files), "get_application", "HTTPServer")
    /\ UNCHANGED <<env, files, socketfd, root_has_handler>>
    /\ UNCHANGED pvars

\* main: server = HTTPServer(app)
main_HTTPServer ==
    /\ spc = "HTTPServer"
    /\ Update(Self, "HTTPServer", "socket")
    /\ UNCHANGED <<env, files, socketfd, root_has_handler>>
    /\ UNCHANGED pvars

\* main: if self.config.socketfd: server.add_socket(sock)
main_add_socket ==
    /\ spc = "socket"
    /\ socketfd
    /\ Update(config(config(Self, files), files), "add_socket", "slog")
    /\ UNCHANGED <<env, files, socketfd, root_has_handler>>
    /\ UNCHANGED pvars

\* main: else: server.bind(self.config.port, address=self.config.address)
main_bind ==
    /\ spc = "socket"
    /\ ~socketfd
    /\ Update(config(config(config(Self, files), files), files), "bind", "start")
    /\ UNCHANGED <<env, files, socketfd, root_has_handler>>
    /\ UNCHANGED pvars

\* main: server.start(1)
main_start ==
    /\ spc = "start"
    /\ Update(Self, "start", "slog")
    /\ UNCHANGED <<env, files, socketfd, root_has_handler>>
    /\ UNCHANGED pvars

\* main: self.slog.info('Starting supercell')
main_slog ==
    /\ spc = "slog"
    /\ Update(slog(Self, files, root_has_handler), "info", "IOLoop")
    /\ root_has_handler' = (root_has_handler \/ "_slog" \notin attrs)
    /\ UNCHANGED <<env, files, socketfd>>
    /\ UNCHANGED pvars

\* main: IOLoop.instance().start()
main_IOLoop ==
    /\ spc = "IOLoop"
    /\ Update(Self, "IOLoop.start", "serving")
    /\ UNCHANGED <<env, files, socketfd, root_has_handler>>
    /\ UNCHANGED pvars

NextService ==
    \/ get_app_environment
    \/ get_app_bootstrap
    \/ get_app_config
    \/ get_app_run
    \/ get_app_finalize
    \/ get_app_return
    \/ main_HTTPServer
    \/ main_add_socket
    \/ main_bind
    \/ main_start
    \/ main_slog
    \/ main_IOLoop

SpecService == InitService /\ [][NextService]_vars

(***************************************************************************)
(* Start-up order                                                          *)
(***************************************************************************)
GetAppOrder ==
    <<"bootstrap", "parse_config_files", "parse_command_line", "run",
      "_finalize", "get_application">>

ListenerEvents == {"add_socket", "bind", "start", "IOLoop.start"}

Range(f) == {f[i] : i \in DOMAIN f}

GetAppCalls == SelectSeq(trace, LAMBDA e : e \in Range(GetAppOrder))

IsPrefix(a, b) == Len(a) <= Len(b) /\ a = SubSeq(b, 1, Len(a))

Before(e, k) == \E i \in 1..(k - 1) : trace[i] = e

ListenerExists == \E k \in 1..Len(trace) : trace[k] \in ListenerEvents

\* C10: get_app calls bootstrap, the configuration parse (files, then
\* command line, once), run, _finalize and get_application in that order;
\* the socket is bound or added and the IO loop started only after
\* get_application, and no handler is added once the listener exists.
C10_StartupOrder ==
    /\ [](/\ IsPrefix(GetAppCalls, GetAppOrder)
          /\ \A k \in 1..Len(trace) :
                /\ trace[k] = "parse_config_file" =>
                      /\ Before("parse_config_files", k)
                      /\ ~Before("parse_command_line", k)
                /\ trace[k] \in ListenerEvents =>
                      /\ Before("get_application", k)
                      /\ env.finalized
          /\ env.finalized => Before("run", Len(trace) + 1)
          /\ spc = "serving" =>
                /\ GetAppCalls = GetAppOrder
                /\ trace[Len(trace)] = "IOLoop.start")
    /\ [][ListenerExists => env' = env]_vars

C10_Witness ==
    /\ spc = "serving"
    /\ Len(files) = 2
    /\ files[1].cfg /\ files[2].named
    /\ socketfd
    /\ env.handlers >= 1

====
